---- MODULE Spec2Model ----
(***************************************************************************)
(* Travel Planner (src/app.py): the POI store kept in pois.json, the POI   *)
(* validator PoiIn, and the geocode / route gateways to the provider.      *)
(*                                                                         *)
(* Text is a sequence of one-character strings, so that str.strip and      *)
(* str.lower are computed character by character.  Latitudes, longitudes   *)
(* are whole degrees.  The parsed content of pois.json is kept as the list *)
(* json.load returns; json.dump followed by json.load gives back the same  *)
(* list of dicts for the str / number / list-of-str values stored here.    *)
(***************************************************************************)
EXTENDS Integers, Sequences, FiniteSets, TLC

VARIABLES
    file,     \* pois.json: [st, pois]
    nextId,   \* number of uuid4 values drawn so far
    req,      \* the requests in flight, one per worker thread
    last,     \* the last request served when requests are served one at a time
    created,  \* the entries those requests returned with 201, in order
    gw        \* the last geocode / route call and the provider requests it made

vars == <<file, nextId, req, last, created, gw>>

-----------------------------------------------------------------------------
(* Bounds *)

\* uuids drawn while requests are served one at a time
MaxIds == 3
\* uuids drawn while requests are served concurrently
MaxRaceIds == 2
\* worker threads serving requests concurrently
NumWorkers == 2

Workers == 1..NumWorkers

-----------------------------------------------------------------------------
(* Text *)

Whitespace == {" ", "\t"}

LowerChar(c) ==
    CASE c = "A" -> "a"
      [] c = "B" -> "b"
      [] c = "C" -> "c"
      [] OTHER -> c

Lower(s) == [i \in 1..Len(s) |-> LowerChar(s[i])]

RECURSIVE LStrip(_)
LStrip(s) ==
    IF s # <<>> /\ Head(s) \in Whitespace THEN LStrip(Tail(s)) ELSE s

RECURSIVE RStrip(_)
RStrip(s) ==
    IF s # <<>> /\ s[Len(s)] \in Whitespace
    THEN RStrip(SubSeq(s, 1, Len(s) - 1))
    ELSE s

Strip(s) == RStrip(LStrip(s))

\* p["name"].strip().lower()
NameKey(s) == Lower(Strip(s))

-----------------------------------------------------------------------------
(* PoiIn *)

PoiIn_name(v) == Len(v) >= 1

\* a slip of PoiIn._lat: the bounds themselves refused
PoiIn_lat_strict(v) == -90 < v /\ v < 90

PoiIn_lat(v) == -90 <= v /\ v <= 90

PoiIn_lon(v) == -180 <= v /\ v <= 180

PoiIn(poi) == PoiIn_name(poi.name) /\ PoiIn_lat(poi.lat) /\ PoiIn_lon(poi.lon)

\* The request bodies posted to /pois.
Candidates ==
    { [name |-> <<"a">>,           lat |-> 90,  lon |-> 180,  tags |-> <<"park">>],
      [name |-> <<"A">>,           lat |-> -90, lon |-> -180, tags |-> <<>>],
      [name |-> <<" ", "A", " ">>, lat |-> 0,   lon |-> 0,    tags |-> <<>>],
      [name |-> <<"\t", "B">>,     lat |-> 0,   lon |-> 0,    tags |-> <<"park", "park">>],
      [name |-> <<"c">>,           lat |-> -90, lon |-> 180,  tags |-> <<>>],
      [name |-> <<" ">>,           lat |-> 0,   lon |-> 0,    tags |-> <<>>],
      [name |-> <<>>,              lat |-> 0,   lon |-> 0,    tags |-> <<>>],
      [name |-> <<"a">>,           lat |-> 91,  lon |-> 0,    tags |-> <<>>],
      [name |-> <<"b">>,           lat |-> -91, lon |-> 0,    tags |-> <<>>],
      [name |-> <<"b">>,           lat |-> 0,   lon |-> 181,  tags |-> <<>>],
      [name |-> <<"b">>,           lat |-> 0,   lon |-> -181, tags |-> <<>>],
      [name |-> <<"c">>,           lat |-> 100, lon |-> 200,  tags |-> <<>>] }

\* The request bodies posted to /pois while other requests are in flight.
RaceCandidates ==
    { [name |-> <<"a">>,           lat |-> 90,  lon |-> 180,  tags |-> <<"park">>],
      [name |-> <<" ", "A", " ">>, lat |-> 0,   lon |-> 0,    tags |-> <<>>],
      [name |-> <<"\t", "B">>,     lat |-> 0,   lon |-> 0,    tags |-> <<"park", "park">>],
      [name |-> <<"c">>,           lat |-> 100, lon |-> 200,  tags |-> <<>>] }

NoPoi == [name |-> <<>>, lat |-> 0, lon |-> 0, tags |-> <<>>]

-----------------------------------------------------------------------------
(* pois.json *)

NoFile == [st |-> "absent", pois |-> <<>>]

JsonFile(pois) == [st |-> "json", pois |-> pois]

\* open("w") has truncated the file and nothing is written yet
TruncatedFile == [st |-> "empty", pois |-> <<>>]

\* bytes of two writers overlaid: not a JSON document
CorruptFile == [st |-> "corrupt", pois |-> <<>>]

\* load_pois: [] when the file does not exist, else json.load of it, which
\* raises on an empty or garbled file.
load_pois(f) ==
    IF f.st = "absent" THEN [raised |-> FALSE, pois |-> <<>>]
    ELSE IF f.st = "json" THEN [raised |-> FALSE, pois |-> f.pois]
    ELSE [raised |-> TRUE, pois |-> <<>>]

\* save_pois with no other writer: the file holds the dumped list.
save_pois(pois) == JsonFile(pois)

\* list_pois opens pois.json itself, with no check that it exists.
read_pois_json(f) ==
    IF f.st = "json" THEN [raised |-> FALSE, pois |-> f.pois]
    ELSE [raised |-> TRUE, pois |-> <<>>]

-----------------------------------------------------------------------------
(* create_poi / delete_poi: the work between load_pois and save_pois *)

\* a slip of the id: the same identifier for every entry
uuid4_hex_fixed(n) == <<1>>

\* uuid.uuid4().hex: a fresh, non-empty identifier; n values were drawn before
uuid4_hex(n) == <<n + 1>>

names(pois) == {NameKey(pois[i].name) : i \in 1..Len(pois)}

\* a slip of the uniqueness test: names compared without .lower()
is_duplicate_cased(pois, poi) ==
    Strip(poi.name) \in {Strip(pois[i].name) : i \in 1..Len(pois)}

\* a slip of the uniqueness test: names compared without .strip()
is_duplicate_unstripped(pois, poi) ==
    Lower(poi.name) \in {Lower(pois[i].name) : i \in 1..Len(pois)}

is_duplicate(pois, poi) == NameKey(poi.name) \in names(pois)

new_item(poi, n) ==
    [id |-> uuid4_hex(n), name |-> Strip(poi.name),
     lat |-> poi.lat, lon |-> poi.lon, tags |-> poi.tags]

\* a slip of the filter: everything from the matching entry on is dropped
RECURSIVE new_pois_cut(_, _)
new_pois_cut(pois, poi_id) ==
    IF pois = <<>> THEN <<>>
    ELSE IF Head(pois).id # poi_id
         THEN <<Head(pois)>> \o new_pois_cut(Tail(pois), poi_id)
         ELSE <<>>

\* [p for p in pois if p.get("id") != poi_id]
RECURSIVE new_pois(_, _)
new_pois(pois, poi_id) ==
    IF pois = <<>> THEN <<>>
    ELSE IF Head(pois).id # poi_id
         THEN <<Head(pois)>> \o new_pois(Tail(pois), poi_id)
         ELSE new_pois(Tail(pois), poi_id)

\* The path ids of DELETE /pois/{poi_id}: each of the first n ids issued and
\* one ("nonexistent") that never is.
PoiIds(n) == {uuid4_hex(k) : k \in 0..(n - 1)} \cup {<<0>>}

-----------------------------------------------------------------------------
(* Requests served one at a time: each action is a whole handler *)

Response(op, poi, poi_id, status, body, calls) ==
    [op |-> op, poi |-> poi, poi_id |-> poi_id, status |-> status,
     body |-> body, calls |-> calls]

NoResponse == Response("none", NoPoi, <<0>>, 0, <<>>, <<>>)

\* POST /pois
create_poi(poi) ==
    IF ~PoiIn(poi)
    THEN /\ last' = Response("create", poi, <<0>>, 422, <<>>, <<>>)
         /\ UNCHANGED <<file, nextId, created>>
    ELSE LET l == load_pois(file) IN
         IF l.raised
         THEN /\ last' = Response("create", poi, <<0>>, 500, <<>>, <<"load">>)
              /\ UNCHANGED <<file, nextId, created>>
         ELSE IF is_duplicate(l.pois, poi)
         THEN /\ last' = Response("create", poi, <<0>>, 409, <<>>, <<"load">>)
              /\ UNCHANGED <<file, nextId, created>>
         ELSE LET item == new_item(poi, nextId) IN
              /\ file' = save_pois(Append(l.pois, item))
              /\ nextId' = nextId + 1
              /\ created' = Append(created, item)
              /\ last' = Response("create", poi, <<0>>, 201, <<item>>,
                                  <<"load", "save">>)

\* DELETE /pois/{poi_id}
delete_poi(poi_id) ==
    LET l == load_pois(file) IN
    IF l.raised
    THEN /\ last' = Response("delete", NoPoi, poi_id, 500, <<>>, <<"load">>)
         /\ UNCHANGED <<file, nextId, created>>
    ELSE LET kept == new_pois(l.pois, poi_id) IN
         IF Len(kept) = Len(l.pois)
         THEN /\ last' = Response("delete", NoPoi, poi_id, 404, <<>>, <<"load">>)
              /\ UNCHANGED <<file, nextId, created>>
         ELSE /\ file' = save_pois(kept)
              /\ last' = Response("delete", NoPoi, poi_id, 204, <<>>,
                                  <<"load", "save">>)
              /\ UNCHANGED <<nextId, created>>

\* GET /pois
list_pois ==
    LET r == read_pois_json(file) IN
    /\ last' = IF r.raised
               THEN Response("list", NoPoi, <<0>>, 500, <<>>, <<"read">>)
               ELSE Response("list", NoPoi, <<0>>, 200, r.pois, <<"read">>)
    /\ UNCHANGED <<file, nextId, created>>

SeqCreate ==
    /\ nextId < MaxIds
    /\ \E poi \in Candidates : create_poi(poi)
    /\ UNCHANGED <<req, gw>>

SeqDelete ==
    /\ \E poi_id \in PoiIds(MaxIds) : delete_poi(poi_id)
    /\ UNCHANGED <<req, gw>>

SeqList ==
    /\ list_pois
    /\ UNCHANGED <<req, gw>>

-----------------------------------------------------------------------------
(* Provider gateways: text to numbers *)

\* a missing dict key, JSON null
None == "None"

Digits == <<"0", "1", "2", "3", "4", "5", "6", "7", "8", "9">>

IsDigit(c) == \E d \in 1..10 : Digits[d] = c

DigitVal(c) == (CHOOSE d \in 1..10 : Digits[d] = c) - 1

\* s.split(",")
RECURSIVE split(_)
split(s) ==
    IF \A i \in 1..Len(s) : s[i] # ","
    THEN <<s>>
    ELSE LET i == CHOOSE k \in 1..Len(s) :
                      s[k] = "," /\ \A j \in 1..(k - 1) : s[j] # ","
         IN <<SubSeq(s, 1, i - 1)>> \o split(SubSeq(s, i + 1, Len(s)))

RECURSIVE Pow10(_)
Pow10(n) == IF n = 0 THEN 1 ELSE 10 * Pow10(n - 1)

\* the number a string of digits writes
RECURSIVE DigitsVal(_)
DigitsVal(ds) ==
    IF ds = <<>> THEN 0
    ELSE 10 * DigitsVal(SubSeq(ds, 1, Len(ds) - 1)) + DigitVal(ds[Len(ds)])

\* a decimal num / den with den a power of ten, trailing zeros dropped
RECURSIVE Decimal(_, _)
Decimal(num, den) ==
    IF den > 1 /\ num % 10 = 0 THEN Decimal(num \div 10, den \div 10)
    ELSE [num |-> num, den |-> den]

NotANumber == [ok |-> FALSE, num |-> 0, den |-> 1]

\* float(x.strip()) on the decimal forms: an optional sign, digits with at
\* most one point, at least one digit.  Anything else raises ValueError.
\* (Exponents, inf, nan and digit-grouping underscores, which float() also
\* takes, are not among the strings sent.)
to_float(x) ==
    LET t == Strip(x)
        signed == t # <<>> /\ Head(t) \in {"+", "-"}
        body == IF signed THEN Tail(t) ELSE t
        points == {i \in 1..Len(body) : body[i] = "."}
        p == IF points = {} THEN Len(body) + 1 ELSE CHOOSE i \in points : TRUE
        whole == SubSeq(body, 1, p - 1)
        frac == SubSeq(body, p + 1, Len(body))
        mag == DigitsVal(whole \o frac)
    IN
    IF /\ Cardinality(points) <= 1
       /\ \A i \in 1..Len(body) : i \notin points => IsDigit(body[i])
       /\ Len(whole) + Len(frac) >= 1
    THEN LET d == Decimal(mag, Pow10(Len(frac))) IN
         [ok |-> TRUE,
          num |-> IF signed /\ Head(t) = "-" THEN 0 - d.num ELSE d.num,
          den |-> d.den]
    ELSE NotANumber

NoCoord == [raised |-> TRUE, lat |-> NotANumber, lon |-> NotANumber]

\* a slip of the unpacking: components after the second are ignored
parse_coord_first_two(coord) ==
    LET parts == split(coord)
        floats == [i \in 1..Len(parts) |-> to_float(parts[i])]
    IN
    IF Len(parts) < 2 \/ ~floats[1].ok \/ ~floats[2].ok
    THEN NoCoord
    ELSE [raised |-> FALSE, lat |-> floats[1], lon |-> floats[2]]

\* lat, lon = [float(x.strip()) for x in coord.split(",")]
parse_coord(coord) ==
    LET parts == split(coord)
        floats == [i \in 1..Len(parts) |-> to_float(parts[i])]
    IN
    IF \E i \in 1..Len(parts) : ~floats[i].ok
    THEN NoCoord
    ELSE IF Len(parts) # 2
    THEN NoCoord
    ELSE [raised |-> FALSE, lat |-> floats[1], lon |-> floats[2]]

\* Python's round(n / d) of a non-negative quotient: to the nearest whole
\* number, an exact half to the even one
round_div(n, d) ==
    LET q == n \div d
        r == n % d
    IN IF 2 * r < d THEN q
       ELSE IF 2 * r > d THEN q + 1
       ELSE IF q % 2 = 0 THEN q ELSE q + 1

\* "lat,lon" strings of two numbers within the coordinate ranges
WellFormedCoords ==
    { <<"4", "8", ".", "8", "5", "8", "4", ",", "2", ".", "2", "9", "4", "5">>,
      <<"4", "8", ".", "8", "6", "0", "6", ",", "2", ".", "3", "3", "7", "6">>,
      <<"-", "9", "0", ",", "1", "8", "0", ".", "0">>,
      <<" ", "9", " ", ",", "+", ".", "5">> }

\* two numbers, the latitude or the longitude outside its range
OutOfRangeCoords ==
    { <<"9", "1", ".", "0", ",", "1", "8", "1", ".", "0">>,
      <<"-", "9", "0", ".", "5", ",", "0">>,
      <<"0", ",", "1", "8", "1">> }

\* not two numeric components: text, one component, three, an empty one
MalformedCoords ==
    { <<"i", "n", "v", "a", "l", "i", "d">>,
      <<"i", "n", "v", "a", "l", "i", "d", ",", "f", "o", "r", "m", "a", "t">>,
      <<"4", "8", ".", "8", "5", "8", "4">>,
      <<"4", "8", ".", "8", "5", "8", "4", ",", "2", ".", "2", "9", "4", "5", ",", "e", "x", "t", "r", "a">>,
      <<>>,
      <<"1", ",">>,
      <<"1", ".", "2", ".", "3", ",", "4">>,
      <<"1", " ", "2", ",", "3">>,
      <<"-", ",", "1">>,
      <<"7", ",", "8", ",", "9">> }

CoordStrings == WellFormedCoords \cup OutOfRangeCoords \cup MalformedCoords

Profiles == {"foot-walking", "driving-car"}

-----------------------------------------------------------------------------
(* The provider's replies *)

\* the search size geocode asks for
GeocodeSize == 5

\* features in a search reply that mixes the kinds of feature
MaxFeatures == 2
\* point features in a search reply made of well-formed points only
MaxPoints == 6

NoDict == [keys |-> {}]

\* d.get(k, default), the dict d given with the set of keys it holds
Get(d, k, default) == IF k \in d.keys THEN d[k] ELSE default

Feature(keys, gkeys, type, coordinates, pkeys, label, name) ==
    [keys |-> keys,
     geometry |-> [keys |-> gkeys, type |-> type, coordinates |-> coordinates],
     properties |-> [keys |-> pkeys, label |-> label, name |-> name]]

Moscow == <<"37.6173", "55.7558">>
Paris == <<"2.2945", "48.8584">>

\* the features of a search reply, by what they hold
FeatureKinds ==
    { Feature({"geometry", "properties"}, {"type", "coordinates"}, "Point",
              Moscow, {"label", "name"}, "Moscow, Russia", "Moscow"),
      Feature({"geometry", "properties"}, {"type", "coordinates"}, "Point",
              Paris, {"name"}, None, "Paris"),
      Feature({"geometry", "properties"}, {"type", "coordinates"}, "Point",
              Paris, {"label", "name"}, "", "Tour Eiffel"),
      Feature({"geometry", "properties"}, {"type", "coordinates"}, "Point",
              Moscow, {}, None, None),
      Feature({"geometry", "properties"}, {"type", "coordinates"}, "Polygon",
              <<>>, {"label"}, "Moscow Oblast", None),
      Feature({"properties"}, {}, None, <<>>, {"label"}, "Nowhere", None),
      Feature({"geometry", "properties"}, {"type"}, "Point",
              <<>>, {"label"}, "Unplaced", None),
      Feature({"geometry", "properties"}, {"type", "coordinates"}, "Point",
              <<"86.9250", "27.9881", "8848">>, {"label"}, "Everest", None) }

PlainPoint ==
    Feature({"geometry", "properties"}, {"type", "coordinates"}, "Point",
            Moscow, {"label", "name"}, "Moscow, Russia", "Moscow")

ProviderReply(arrived, status, features) ==
    [arrived |-> arrived, status |-> status, features |-> features]

\* the request timed out or the connection failed: httpx raises
NoReply == ProviderReply(FALSE, 0, <<>>)

GeocodeReplies ==
    {ProviderReply(TRUE, 200, fs) :
        fs \in UNION {[1..n -> FeatureKinds] : n \in 0..MaxFeatures}}
    \cup {ProviderReply(TRUE, 200, [i \in 1..n |-> PlainPoint]) :
             n \in 0..MaxPoints}
    \cup {ProviderReply(TRUE, 500, <<>>), ProviderReply(TRUE, 403, <<>>), NoReply}

\* a directions feature; distance in tenths of a metre, duration in seconds
RouteFeature(keys, pkeys, skeys, distance, duration) ==
    [keys |-> keys,
     properties |->
         [keys |-> pkeys,
          summary |-> [keys |-> skeys, distance |-> distance,
                       duration |-> duration]]]

RouteReplies ==
    { ProviderReply(TRUE, 200,
          <<RouteFeature({"properties"}, {"summary"}, {"distance", "duration"},
                         35000, 2700)>>),
      ProviderReply(TRUE, 200,
          <<RouteFeature({"properties"}, {"summary"}, {"distance", "duration"},
                         12346, 90),
            RouteFeature({"properties"}, {"summary"}, {"distance", "duration"},
                         35000, 2700)>>),
      ProviderReply(TRUE, 200,
          <<RouteFeature({"properties"}, {"summary"}, {"distance"}, 5004, 0)>>),
      ProviderReply(TRUE, 200,
          <<RouteFeature({"properties"}, {}, {}, 0, 0)>>),
      ProviderReply(TRUE, 200, <<RouteFeature({}, {}, {}, 0, 0)>>),
      ProviderReply(TRUE, 200, <<>>),
      ProviderReply(TRUE, 404, <<>>),
      ProviderReply(TRUE, 500, <<>>),
      NoReply }

\* the q of GET /geocode
Queries == {<<"M">>, <<"M", "o">>, <<"M", "o", "s", "c", "o", "w">>}

-----------------------------------------------------------------------------
(* geocode / route: each action is a whole handler *)

Call(op, q, from_coord, to_coord, profile, reply, status, sent, results, km, min) ==
    [op |-> op, q |-> q, from_coord |-> from_coord, to_coord |-> to_coord,
     profile |-> profile, reply |-> reply, status |-> status, sent |-> sent,
     results |-> results, distance_km |-> km, duration_min |-> min]

NoCall == Call("none", <<>>, <<>>, <<>>, "", NoReply, 0, <<>>, <<>>, 0, 0)

Truthy(x) == x # None /\ x # ""

\* props.get("label") or props.get("name")
label_of(props) ==
    IF Truthy(Get(props, "label", None))
    THEN Get(props, "label", None)
    ELSE Get(props, "name", None)

\* the loop over data.get("features", []): out, or the ValueError of
\* unpacking coordinates that are not two
RECURSIVE geocode_out(_)
geocode_out(features) ==
    IF features = <<>> THEN [raised |-> FALSE, out |-> <<>>]
    ELSE LET f == features[Len(features)]
             before == geocode_out(SubSeq(features, 1, Len(features) - 1))
             geom == Get(f, "geometry", NoDict)
             props == Get(f, "properties", NoDict)
             coordinates == Get(geom, "coordinates", <<None, None>>)
         IN
         IF before.raised THEN before
         ELSE IF Get(geom, "type", None) # "Point" THEN before
         ELSE IF Len(coordinates) # 2 THEN [raised |-> TRUE, out |-> <<>>]
         ELSE [raised |-> FALSE,
               out |-> Append(before.out,
                              [label |-> label_of(props),
                               lat |-> coordinates[2],
                               lon |-> coordinates[1]])]

\* GET /geocode
geocode(q, reply) ==
    LET search == [kind |-> "search", text |-> q, size |-> GeocodeSize]
        o == geocode_out(reply.features)
    IN
    gw' =
      IF Len(q) < 2
      THEN Call("geocode", q, <<>>, <<>>, "", NoReply, 422, <<>>, <<>>, 0, 0)
      ELSE IF ~reply.arrived
      THEN Call("geocode", q, <<>>, <<>>, "", reply, 500, <<search>>, <<>>, 0, 0)
      ELSE IF reply.status # 200
      THEN Call("geocode", q, <<>>, <<>>, "", reply, reply.status, <<search>>,
                <<>>, 0, 0)
      ELSE IF o.raised
      THEN Call("geocode", q, <<>>, <<>>, "", reply, 500, <<search>>, <<>>, 0, 0)
      ELSE Call("geocode", q, <<>>, <<>>, "", reply, 200, <<search>>, o.out, 0, 0)

\* GET /route
route(from_coord, to_coord, profile, reply) ==
    LET f == parse_coord(from_coord)
        t == parse_coord(to_coord)
        directions ==
            [kind |-> "directions", profile |-> profile,
             coordinates |-> <<<<f.lon, f.lat>>, <<t.lon, t.lat>>>>]
        feat == reply.features[1]
        summary == Get(feat.properties, "summary", NoDict)
        Failed(status) ==
            Call("route", <<>>, from_coord, to_coord, profile, reply, status,
                 <<directions>>, <<>>, 0, 0)
    IN
    gw' =
      IF f.raised \/ t.raised
      THEN Call("route", <<>>, from_coord, to_coord, profile, NoReply, 400,
                <<>>, <<>>, 0, 0)
      ELSE IF ~reply.arrived THEN Failed(500)
      ELSE IF reply.status # 200 THEN Failed(reply.status)
      ELSE IF reply.features = <<>> THEN Failed(502)
      ELSE IF "properties" \notin feat.keys THEN Failed(500)
      ELSE Call("route", <<>>, from_coord, to_coord, profile, reply, 200,
                <<directions>>, <<>>,
                round_div(Get(summary, "distance", 0), 10),
                round_div(Get(summary, "duration", 0), 60))

Geocode ==
    /\ gw = NoCall
    /\ \E q \in Queries, reply \in GeocodeReplies : geocode(q, reply)
    /\ UNCHANGED <<file, nextId, req, last, created>>

Route ==
    /\ gw = NoCall
    /\ \E from_coord \in CoordStrings, to_coord \in CoordStrings,
          profile \in Profiles, reply \in RouteReplies :
           route(from_coord, to_coord, profile, reply)
    /\ UNCHANGED <<file, nextId, req, last, created>>

\* the response is sent
GwRespond ==
    /\ gw # NoCall
    /\ gw' = NoCall
    /\ UNCHANGED <<file, nextId, req, last, created>>

GwNext == Geocode \/ Route \/ GwRespond

-----------------------------------------------------------------------------
(* Init *)

IdleReq ==
    [pc |-> "idle", op |-> "none", poi_id |-> <<0>>,
     pois |-> <<>>, status |-> 0, body |-> <<>>]

\* pois.json does not exist yet, or holds the empty list the tests start from.
Init ==
    /\ file \in {NoFile, JsonFile(<<>>)}
    /\ nextId = 0
    /\ req = [w \in Workers |-> IdleReq]
    /\ last = NoResponse
    /\ created = <<>>
    /\ gw = NoCall

-----------------------------------------------------------------------------
(* Requests served by concurrent worker threads.  A handler is cut where it  *)
(* touches pois.json: load_pois (with the work on the loaded list that       *)
(* follows it), the open("w") of save_pois, which truncates the file, and    *)
(* the write that json.dump's buffer makes on close.                         *)

\* the handler returns or raises: its locals are gone, the response is left
Reply(r, status, body) ==
    [r EXCEPT !.pc = "done", !.pois = <<>>, !.status = status, !.body = body]

\* POST /pois: PoiIn validates the body, then create_poi runs up to
\* pois.append(item)
post_pois(w, poi) ==
    /\ req[w].pc = "idle"
    /\ nextId < MaxRaceIds
    /\ LET r == [req[w] EXCEPT !.op = "create"]
           l == load_pois(file)
       IN
       IF ~PoiIn(poi)
       THEN /\ req' = [req EXCEPT ![w] = Reply(r, 422, <<>>)]
            /\ UNCHANGED nextId
       ELSE IF l.raised
       THEN /\ req' = [req EXCEPT ![w] = Reply(r, 500, <<>>)]
            /\ UNCHANGED nextId
       ELSE IF is_duplicate(l.pois, poi)
       THEN /\ req' = [req EXCEPT ![w] = Reply(r, 409, <<>>)]
            /\ UNCHANGED nextId
       ELSE LET item == new_item(poi, nextId) IN
            /\ req' = [req EXCEPT ![w] =
                         [r EXCEPT !.pc = "open", !.pois = Append(l.pois, item),
                                   !.body = <<item>>]]
            /\ nextId' = nextId + 1
    /\ UNCHANGED <<file, last, created, gw>>

\* DELETE /pois/{poi_id}: delete_poi up to the 404 test
delete_pois(w, poi_id) ==
    /\ req[w].pc = "idle"
    /\ LET r == [req[w] EXCEPT !.op = "delete", !.poi_id = poi_id]
           l == load_pois(file)
           kept == new_pois(l.pois, poi_id)
       IN
       IF l.raised
       THEN req' = [req EXCEPT ![w] = Reply(r, 500, <<>>)]
       ELSE IF Len(kept) = Len(l.pois)
       THEN req' = [req EXCEPT ![w] = Reply(r, 404, <<>>)]
       ELSE req' = [req EXCEPT ![w] = [r EXCEPT !.pc = "open", !.pois = kept]]
    /\ UNCHANGED <<file, nextId, last, created, gw>>

\* save_pois: pois_path().open("w") creates or truncates the file
save_open(w) ==
    /\ req[w].pc = "open"
    /\ file' = TruncatedFile
    /\ req' = [req EXCEPT ![w] = [@ EXCEPT !.pc = "write"]]
    /\ UNCHANGED <<nextId, last, created, gw>>

\* a save whose dumped text never leaves the stream's buffer
written_unflushed(f, pois) == {f}

\* What the file holds after this writer's bytes land at offset 0.  On a file
\* still empty that is the dumped list.  When another writer's bytes are
\* already there, the longer of the two texts decides: the list if this text
\* covers them, else this text followed by the other's tail.
written(f, pois) ==
    IF f.st = "empty" THEN {JsonFile(pois)} ELSE {JsonFile(pois), CorruptFile}

\* save_pois: json.dump and the close that flushes it; then the handler
\* returns.  The dumped text of the few entries held here fits the stream's
\* buffer, so it reaches the file in a single write.
save_write(w) ==
    /\ req[w].pc = "write"
    /\ file' \in written(file, req[w].pois)
    /\ req' = [req EXCEPT ![w] =
                 Reply(@, IF @.op = "create" THEN 201 ELSE 204, @.body)]
    /\ UNCHANGED <<nextId, last, created, gw>>

\* GET /pois: list_pois reads the file in one go
get_pois(w) ==
    /\ req[w].pc = "idle"
    /\ LET r == read_pois_json(file) IN
       req' = [req EXCEPT ![w] =
                 Reply([@ EXCEPT !.op = "list"],
                       IF r.raised THEN 500 ELSE 200, r.pois)]
    /\ UNCHANGED <<file, nextId, last, created, gw>>

\* the response is sent and the worker thread is free again
respond(w) ==
    /\ req[w].pc = "done"
    /\ req' = [req EXCEPT ![w] = IdleReq]
    /\ UNCHANGED <<file, nextId, last, created, gw>>

Next ==
    \E w \in Workers :
        \/ \E poi \in RaceCandidates : post_pois(w, poi)
        \/ \E poi_id \in PoiIds(MaxRaceIds) : delete_pois(w, poi_id)
        \/ save_open(w)
        \/ save_write(w)
        \/ get_pois(w)
        \/ respond(w)

Spec == Init /\ [][Next]_vars

SeqNext == SeqCreate \/ SeqDelete \/ SeqList

SpecSeq == Init /\ [][SeqNext]_vars

CreateNext == SeqCreate \/ SeqList

\* the two gateways
SpecGw == Init /\ [][GwNext]_vars

\* creates and lists only, served one at a time
SpecCreate == Init /\ [][CreateNext]_vars

-----------------------------------------------------------------------------
(* Properties of the POI store *)

\* a candidate the validator is meant to let through
ValidCandidate(poi) ==
    /\ Len(poi.name) >= 1
    /\ poi.lat \in -90..90
    /\ poi.lon \in -180..180

OutOfRange(poi) ==
    poi.lat < -90 \/ poi.lat > 90 \/ poi.lon < -180 \/ poi.lon > 180

Without(s, i) == SubSeq(s, 1, i - 1) \o SubSeq(s, i + 1, Len(s))

C2_SequentialCreates ==
    /\ (last.op = "create" /\ ValidCandidate(last.poi) /\ last.status # 201)
           => NameKey(last.poi.name) \in names(created)
    /\ file.st # "absent" => file = JsonFile(created)
    /\ (last.op = "list" /\ file.st # "absent")
           => (last.status = 200 /\ last.body = created)
    /\ \A i \in 1..Len(created) : Len(created[i].id) >= 1
    /\ \A i, j \in 1..Len(created) : i # j => created[i].id # created[j].id

\* list after two or more successful creates
C2_Witness ==
    /\ last.op = "list"
    /\ last.status = 200
    /\ Len(last.body) >= 2
    /\ last.body = created

\* C3: a create whose trimmed, lower-cased name is that of an entry in the
\* file gets 409, whatever its casing and surrounding whitespace, and the file
\* is left as it was, save_pois not being called.
C3_DuplicateRejected ==
    [][ ( /\ last'.op = "create"
          /\ ValidCandidate(last'.poi)
          /\ \E i \in 1..Len(file.pois) :
                 NameKey(file.pois[i].name) = NameKey(last'.poi.name) )
        => ( /\ last'.status = 409
             /\ file' = file
             /\ \A k \in 1..Len(last'.calls) : last'.calls[k] # "save" ) ]_vars

\* a 409 for a name spelled differently from the entry it collides with
C3_Witness ==
    /\ last.op = "create"
    /\ last.status = 409
    /\ \E i \in 1..Len(file.pois) :
           /\ NameKey(file.pois[i].name) = NameKey(last.poi.name)
           /\ file.pois[i].name # last.poi.name

\* C4: a delete of an id in the collection gets 204 and removes that entry
\* alone, the others staying as they were and in the same order; a delete of
\* an id not in the collection gets 404 and leaves the file as it was.
C4_DeleteExactlyOne ==
    [][ last'.op = "delete" =>
          IF \E i \in 1..Len(file.pois) : file.pois[i].id = last'.poi_id
          THEN /\ last'.status = 204
               /\ \E i \in 1..Len(file.pois) :
                      /\ file.pois[i].id = last'.poi_id
                      /\ file' = JsonFile(Without(file.pois, i))
          ELSE /\ last'.status = 404
               /\ file' = file ]_vars

\* a successful delete that left two or more entries behind
C4_Witness ==
    /\ last.op = "delete"
    /\ last.status = 204
    /\ Len(file.pois) >= 2

\* C5: list, when pois.json does not exist, returns the empty collection
\* that load_pois gives in that state, with no error.
C5_ListWithoutFile ==
    (last.op = "list" /\ file.st = "absent")
        => (last.status = 200 /\ last.body = load_pois(file).pois)

\* C6: every entry create persists and returns has a name of length >= 1.
C6_StoredNameNonEmpty ==
    /\ \A i \in 1..Len(file.pois) : Len(file.pois[i].name) >= 1
    /\ (last.op = "create" /\ last.status = 201)
           => Len(last.body[1].name) >= 1

\* C7: a create with lat outside [-90, 90] or lon outside [-180, 180] gets
\* 422 with the store neither read nor written, also when its name is taken;
\* a create within the ranges, bounds included, and with a non-empty name is
\* not refused by validation; every entry in the file is within the ranges.
C7_RangeValidation ==
    /\ [](/\ (last.op = "create" /\ OutOfRange(last.poi))
                 => (last.status = 422 /\ last.calls = <<>>)
          /\ (last.op = "create" /\ ~OutOfRange(last.poi)
                 /\ Len(last.poi.name) >= 1)
                 => last.status \in {201, 409}
          /\ \A i \in 1..Len(file.pois) :
                 /\ file.pois[i].lat \in -90..90
                 /\ file.pois[i].lon \in -180..180)
    /\ [][ (last'.op = "create" /\ OutOfRange(last'.poi)) => file' = file ]_vars

\* a 422 for an out-of-range latitude whose name is that of a stored entry
C7_Witness ==
    /\ last.op = "create"
    /\ last.status = 422
    /\ OutOfRange(last.poi)
    /\ NameKey(last.poi.name) \in names(file.pois)

-----------------------------------------------------------------------------
(* Properties of the gateways *)

\* C8: a route call whose from_coord or to_coord is not two numeric
\* components gets 400 and sends nothing to the provider.
C8_MalformedRejected ==
    (gw.op = "route"
        /\ (gw.from_coord \in MalformedCoords \/ gw.to_coord \in MalformedCoords))
    => (gw.status = 400 /\ gw.sent = <<>>)

\* from_coord is fine and to_coord is malformed
C8_Witness ==
    /\ gw.op = "route"
    /\ gw.from_coord \in WellFormedCoords
    /\ gw.to_coord \in MalformedCoords
    /\ gw.status = 400
    /\ gw.sent = <<>>

\* C9: a route call whose from_coord is two numbers with the latitude or the
\* longitude outside its range gets 400 and is not forwarded to the provider.
C9_OutOfRangeRejected ==
    (gw.op = "route" /\ gw.from_coord \in OutOfRangeCoords)
    => (gw.status = 400 /\ gw.sent = <<>>)

IsPoint(f) ==
    /\ "geometry" \in f.keys
    /\ "type" \in f.geometry.keys
    /\ f.geometry.type = "Point"

HasText(props, k) == k \in props.keys /\ props[k] # None /\ props[k] # ""

HasUsableLabel(f) ==
    /\ "properties" \in f.keys
    /\ (HasText(f.properties, "label") \/ HasText(f.properties, "name"))

UsableLabel(f) ==
    IF HasText(f.properties, "label") THEN f.properties.label
    ELSE f.properties.name

Coordinate(f, i) ==
    IF "coordinates" \in f.geometry.keys /\ Len(f.geometry.coordinates) >= i
    THEN f.geometry.coordinates[i]
    ELSE None

\* one entry per point feature with a usable label, in the provider's order
RECURSIVE LabelledPoints(_)
LabelledPoints(features) ==
    IF features = <<>> THEN <<>>
    ELSE LET f == Head(features) IN
         IF IsPoint(f) /\ HasUsableLabel(f)
         THEN <<[label |-> UsableLabel(f), lat |-> Coordinate(f, 2),
                 lon |-> Coordinate(f, 1)]>> \o LabelledPoints(Tail(features))
         ELSE LabelledPoints(Tail(features))

\* C10: on a 200 reply geocode succeeds and returns, in the provider's order,
\* one entry per feature that is a point and has a usable label (label, else
\* name), with lat and lon swapped from the provider's (lon, lat); the other
\* features are skipped, so no entry has a null or empty label.
C10_LabelledPointsOnly ==
    (gw.op = "geocode" /\ gw.reply.arrived /\ gw.reply.status = 200)
    => /\ gw.status = 200
       /\ gw.results = LabelledPoints(gw.reply.features)
       /\ \A i \in 1..Len(gw.results) :
              gw.results[i].label # None /\ gw.results[i].label # ""

\* C11: on a 200 reply, whatever number of features it holds, geocode returns
\* at most GeocodeSize (5) entries.
C11_AtMostFive ==
    (gw.op = "geocode" /\ gw.reply.arrived /\ gw.reply.status = 200)
    => Len(gw.results) <= GeocodeSize

-----------------------------------------------------------------------------
(* Lost updates in the POI store *)

InFile(poi_id) ==
    \E i \in 1..Len(file.pois) : file.pois[i].id = poi_id

\* C12: a create or delete that gets as far as save_pois returns success (201
\* or 204) and replaces the whole of pois.json with the list it loaded itself
\* and changed in memory (or garbles it when its bytes land on another
\* writer's), whatever the file came to hold since the load; so the last of
\* two overlapping writers undoes the first one's change.
C12_LastWriterWins ==
    [][ \A w \in Workers :
          (req[w].pc = "write" /\ req'[w].pc = "done")
          => /\ req'[w].status = (IF req[w].op = "create" THEN 201 ELSE 204)
             /\ file' \in {JsonFile(req[w].pois), CorruptFile} ]_vars

\* Two overlapping requests have both returned success, one of them a delete
\* with 204, and the entry it deleted is in the file again: the other request
\* (a create, or a delete of another id) loaded the list before the delete was
\* saved and saved its own list after it.
C12_Witness ==
    \E v, w \in Workers :
        /\ v # w
        /\ req[v].pc = "done" /\ req[v].op = "delete" /\ req[v].status = 204
        /\ req[w].pc = "done" /\ req[w].status \in {201, 204}
        /\ req[w].op = "delete" => req[w].poi_id # req[v].poi_id
        /\ file.st = "json"
        /\ InFile(req[v].poi_id)

====
